---------------------------- MODULE Spec2Model ----------------------------
(***************************************************************************)
(* The clutchlang lexer (ClutchLexer over a StringScanner) as a state      *)
(* machine, with the scanner and its SourceFile called directly, and the   *)
(* AST visitors.  A character is a one-character string, a string is a     *)
(* sequence of characters, and offsets are 0-based as in the source.       *)
(***************************************************************************)
EXTENDS Integers, Sequences, FiniteSets, TLC

VARIABLES
    program,        \* StringScanner.source.contents
    reporter,       \* which onError was passed: "record" returns, "raise" throws
    pc,             \* scanProgram: "scan" (in the loop), "done" (returned), or the error thrown
    mPosition,      \* StringScanner.mPosition, the cursor
    position,       \* ClutchLexer.position, the lexeme anchor
    lastComments,   \* ClutchLexer.lastComments
    tokens,         \* the local `tokens` of scanProgram / its return value
    errors,         \* the calls made to onError, in order
    mLineStartsCache,   \* SourceFile.mLineStartsCache: <<>> (undefined) or <<table>>
    lastCall,       \* the last call made on the scanner or its file, and its outcome
    ast,            \* the AstCompilationUnit handed to the visitors
    output,         \* PrintTreeVisitor.output, as the lines written
    indent,         \* PrintTreeVisitor.indent
    returned,       \* what the calls of PrintTreeVisitor.visitCompilationUnit returned
    visited         \* the hooks a recording subclass of AstVisitor was called with

\* The fields of the lexer alone.
lexerVars == <<reporter, pc, position, lastComments, tokens, errors>>

\* The file's line-start cache and the record of the last call.
fileVars == <<mLineStartsCache, lastCall>>

\* The visitors and their input.
visitorVars == <<ast, output, indent, returned, visited>>

vars == <<program, mPosition, lexerVars, fileVars, visitorVars>>

\* ------------------------------------------------------------------ bounds

\* Longest input, in characters, of the character-level specification.
MaxLen == 3
\* Most words (identifiers, keywords, separators) concatenated into one input.
MaxWords == 2
\* Most parts (line comments, line ends, tokens) concatenated into one input.
MaxParts == 4
\* Most operator symbols concatenated into one input.
MaxSymbols == 2
\* Longest input, in characters, of the specification of numeric literals.
MaxDigits == 4
\* Most parts concatenated into one input of a lexer that is used again.
MaxReuseParts == 3
\* Most comments a lexer may hold in its buffer when it is used again.
MaxBuffered == 1

\* -------------------------------------------------------------- characters

\* What charCodeAt gives outside the string.
NaN == "NaN"

Digits == {"0", "1", "2", "3", "4", "5", "6", "7", "8", "9"}

HexLetters == {"a", "b", "c", "d", "e", "f", "A", "B", "C", "D", "E", "F"}

Letters ==
    {"a", "b", "c", "d", "e", "f", "g", "h", "i", "j", "k", "l", "m",
     "n", "o", "p", "q", "r", "s", "t", "u", "v", "w", "x", "y", "z",
     "A", "B", "C", "D", "E", "F", "G", "H", "I", "J", "K", "L", "M",
     "N", "O", "P", "Q", "R", "S", "T", "U", "V", "W", "X", "Y", "Z"}

isDigit(c) == c \in Digits

isHexadecimal(c) == c \in Digits \cup HexLetters

isLetter(c) == c \in Letters

isWhiteSpace(c) == c \in {" ", "\t", "\n", "\r"}

isIdentifierStart(character) == isLetter(character) \/ character = "_"

isIdentifier(character) == isIdentifierStart(character) \/ isDigit(character)

\* The characters a predicate accepts, for scanPredicate.
Accepted(predicate) ==
    CASE predicate = "isDigit" -> Digits
      [] predicate = "isHexadecimal" -> Digits \cup HexLetters
      [] predicate = "isIdentifier" -> Letters \cup {"_"} \cup Digits

\* ----------------------------------------------------------------- strings

Min(a, b) == IF a < b THEN a ELSE b

Max(a, b) == IF a > b THEN a ELSE b

\* String.prototype.substring: both indices are clamped to [0, length] and
\* swapped when start > end.
StrSubstring(str, start, end) ==
    LET s == Min(Max(start, 0), Len(str))
        e == Min(Max(end, 0), Len(str))
    IN  SubSeq(str, Min(s, e) + 1, Max(s, e))

RECURSIVE TrimStart(_)
TrimStart(str) ==
    IF str # <<>> /\ isWhiteSpace(Head(str)) THEN TrimStart(Tail(str)) ELSE str

RECURSIVE TrimEnd(_)
TrimEnd(str) ==
    IF str # <<>> /\ isWhiteSpace(str[Len(str)])
    THEN TrimEnd(SubSeq(str, 1, Len(str) - 1))
    ELSE str

\* String.prototype.trim.
Trim(str) == TrimEnd(TrimStart(str))

\* --------------------------------------------------------------- TokenKind

Keyword == {"CLASS", "ELSE", "FALSE", "FOR", "IF", "LET", "RETURN", "SUPER",
            "THIS", "TRUE", "WHILE"}

TokenKind ==
    {"IDENTIFIER", "STRING", "NUMBER"} \cup Keyword
    \cup {"ARROW", "LEFT_PAREN", "RIGHT_PAREN", "LEFT_CURLY", "RIGHT_CURLY"}
    \cup {"PERIOD", "PLUS", "PLUS_BY", "MINUS", "MINUS_BY", "STAR", "STAR_BY",
          "SLASH", "SLASH_BY", "MODULUS", "MODULUS_BY", "ASSIGN", "EQUALS",
          "NOT_EQUALS", "IDENTICAL", "NOT_IDENTICAL", "GREATER_THAN",
          "GREATER_THAN_OR_EQUAL", "LESS_THAN", "LESS_THAN_OR_EQUAL",
          "LOGICAL_OR", "OR", "LOGICAL_AND", "AND", "LOGICAL_XOR", "NEGATE",
          "LOGICAL_NOT", "INCREMENT", "DECREMENT", "LEFT_SHIFT", "RIGHT_SHIFT"}
    \cup {"EOF"}

\* The enum's values for the keywords: the text each keyword kind stands for.
KeywordValue ==
    [k \in Keyword |->
        CASE k = "CLASS" -> <<"c", "l", "a", "s", "s">>
          [] k = "ELSE" -> <<"e", "l", "s", "e">>
          [] k = "FALSE" -> <<"f", "a", "l", "s", "e">>
          [] k = "FOR" -> <<"f", "o", "r">>
          [] k = "IF" -> <<"i", "f">>
          [] k = "LET" -> <<"l", "e", "t">>
          [] k = "RETURN" -> <<"r", "e", "t", "u", "r", "n">>
          [] k = "SUPER" -> <<"s", "u", "p", "e", "r">>
          [] k = "THIS" -> <<"t", "h", "i", "s">>
          [] k = "TRUE" -> <<"t", "r", "u", "e">>
          [] k = "WHILE" -> <<"w", "h", "i", "l", "e">>]

\* The enum's values for the symbols and operators, as (kind, text) pairs.
OperatorValue ==
    {<<"ARROW", <<"-", ">">> >>,
     <<"LEFT_PAREN", <<"(">> >>, <<"RIGHT_PAREN", <<")">> >>,
     <<"LEFT_CURLY", <<"{">> >>, <<"RIGHT_CURLY", <<"}">> >>,
     <<"PERIOD", <<".">> >>,
     <<"PLUS", <<"+">> >>, <<"PLUS_BY", <<"+", "=">> >>,
     <<"MINUS", <<"-">> >>, <<"MINUS_BY", <<"-", "=">> >>,
     <<"STAR", <<"*">> >>, <<"STAR_BY", <<"*", "=">> >>,
     <<"SLASH", <<"/">> >>, <<"SLASH_BY", <<"/", "=">> >>,
     <<"MODULUS", <<"%">> >>, <<"MODULUS_BY", <<"%", "=">> >>,
     <<"ASSIGN", <<"=">> >>, <<"EQUALS", <<"=", "=">> >>,
     <<"NOT_EQUALS", <<"!", "=">> >>,
     <<"IDENTICAL", <<"=", "=", "=">> >>,
     <<"NOT_IDENTICAL", <<"!", "=", "=">> >>,
     <<"GREATER_THAN", <<">">> >>, <<"GREATER_THAN_OR_EQUAL", <<">", "=">> >>,
     <<"LESS_THAN", <<"<">> >>, <<"LESS_THAN_OR_EQUAL", <<"<", "=">> >>,
     <<"LOGICAL_OR", <<"|">> >>, <<"OR", <<"|", "|">> >>,
     <<"LOGICAL_AND", <<"&">> >>, <<"AND", <<"&", "&">> >>,
     <<"LOGICAL_XOR", <<"^">> >>, <<"NEGATE", <<"!">> >>,
     <<"LOGICAL_NOT", <<"~">> >>,
     <<"INCREMENT", <<"+", "+">> >>, <<"DECREMENT", <<"-", "-">> >>,
     <<"LEFT_SHIFT", <<"<", "<">> >>, <<"RIGHT_SHIFT", <<">", ">">> >>}

\* ClutchLexer.keywords: the entries the object literal itself holds.
keywords ==
    {<<KeywordValue[k], k>> :
        k \in {"CLASS", "ELSE", "FALSE", "FOR", "IF", "LET", "RETURN", "SUPER",
               "THIS", "WHILE"}}

\* The property names an object literal inherits from Object.prototype; each
\* holds a function or an object, which is truthy and no TokenKind.
ObjectPrototype ==
    {<<<<"c", "o", "n", "s", "t", "r", "u", "c", "t", "o", "r">>,
       "Object.prototype.constructor">>,
     <<<<"t", "o", "S", "t", "r", "i", "n", "g">>,
       "Object.prototype.toString">>,
     <<<<"v", "a", "l", "u", "e", "O", "f">>,
       "Object.prototype.valueOf">>,
     <<<<"h", "a", "s", "O", "w", "n", "P", "r", "o", "p", "e", "r", "t", "y">>,
       "Object.prototype.hasOwnProperty">>,
     <<<<"i", "s", "P", "r", "o", "t", "o", "t", "y", "p", "e", "O", "f">>,
       "Object.prototype.isPrototypeOf">>,
     <<<<"t", "o", "L", "o", "c", "a", "l", "e", "S", "t", "r", "i", "n", "g">>,
       "Object.prototype.toLocaleString">>,
     <<<<"_", "_", "p", "r", "o", "t", "o", "_", "_">>,
       "Object.prototype">>,
     <<<<"p", "r", "o", "p", "e", "r", "t", "y", "I", "s", "E", "n", "u", "m", "e", "r", "a", "b", "l", "e">>,
       "Object.prototype.propertyIsEnumerable">>,
     <<<<"_", "_", "d", "e", "f", "i", "n", "e", "G", "e", "t", "t", "e", "r", "_", "_">>,
       "Object.prototype.__defineGetter__">>,
     <<<<"_", "_", "d", "e", "f", "i", "n", "e", "S", "e", "t", "t", "e", "r", "_", "_">>,
       "Object.prototype.__defineSetter__">>,
     <<<<"_", "_", "l", "o", "o", "k", "u", "p", "G", "e", "t", "t", "e", "r", "_", "_">>,
       "Object.prototype.__lookupGetter__">>,
     <<<<"_", "_", "l", "o", "o", "k", "u", "p", "S", "e", "t", "t", "e", "r", "_", "_">>,
       "Object.prototype.__lookupSetter__">>}

undefined == "undefined"

\* keywords[name]: an own entry, else an inherited property, else undefined.
keywordsGet(name) ==
    IF \E e \in keywords : e[1] = name
    THEN (CHOOSE e \in keywords : e[1] = name)[2]
    ELSE IF \E e \in ObjectPrototype : e[1] = name
         THEN (CHOOSE e \in ObjectPrototype : e[1] = name)[2]
         ELSE undefined


\* ----------------------------------------------------------- StringScanner
\* The operators below work on a record s of the mutable fields
\* (mPosition, position, lastComments, errors) and of `thrown`, the error
\* that is propagating ("none" while the call runs normally).

length == Len(program)

charCodeAt(i) == IF i >= 0 /\ i < length THEN program[i + 1] ELSE NaN

\* assertRange('position', p, 0, length) of the position setter.
assertRange(p) == p >= 0 /\ p <= length

hasNext(s) == s.mPosition < length

peek(s) == charCodeAt(s.mPosition)

\* StringScanner.substring(start, end).
substring(start, end) == StrSubstring(program, start, end)

advance_NoStep(s) == [character |-> charCodeAt(s.mPosition), st |-> s]

\* advance(): charCodeAt(this.position++), the increment going through the
\* position setter.  `character` is what it returns.
advance(s) ==
    IF assertRange(s.mPosition + 1)
    THEN [character |-> charCodeAt(s.mPosition),
          st |-> [s EXCEPT !.mPosition = @ + 1]]
    ELSE [character |-> NaN, st |-> [s EXCEPT !.thrown = "RangeError"]]

\* match(pattern: number).
match(s, pattern) ==
    IF peek(s) = pattern
    THEN [ok |-> TRUE, st |-> [s EXCEPT !.mPosition = @ + 1]]
    ELSE [ok |-> FALSE, st |-> s]

\* SourceFile.assertValidOffset passes.
validOffset(offset) == offset >= 0 /\ offset <= length

\* SourceFile.span(start, end) returns a span (it throws RangeError otherwise).
spanReturns(start, end) ==
    validOffset(start) /\ validOffset(end) /\ end >= start

\* What a call of the lexer, the file or the scanner gave: the error thrown, if any, and
\* the value returned.
threw(error) == [thrown |-> error, result |-> <<>>]

gave(value) == [thrown |-> "none", result |-> value]

\* ------------------------------------------------------------- ClutchLexer

\* What scanToken returns when it returns no token; a token comes as <<t>>.
noToken == <<>>

\* ClutchLexer.substring(): the text from the anchor to the cursor; the anchor
\* moves to the cursor.
lexSubstring_KeepAnchor(s) ==
    [str |-> substring(s.position, s.mPosition), st |-> s]

lexSubstring(s) ==
    [str |-> substring(s.position, s.mPosition),
     st |-> [s EXCEPT !.position = s.mPosition]]

clearComments_NoReset(s) == [comments |-> s.lastComments, st |-> s]

clearComments(s) ==
    [comments |-> s.lastComments, st |-> [s EXCEPT !.lastComments = <<>>]]

createTokenWith_OffsetAtEnd(s, kind, content) ==
    LET c == clearComments(s)
    IN  [tok |-> <<[kind |-> kind, lexeme |-> content, comments |-> c.comments,
                    offset |-> s.position]>>,
         st |-> c.st]

\* new Token(kind, content, this.clearComments(), this.position - content.length)
createTokenWith(s, kind, content) ==
    LET c == clearComments(s)
    IN  [tok |-> <<[kind |-> kind, lexeme |-> content, comments |-> c.comments,
                    offset |-> s.position - Len(content)]>>,
         st |-> c.st]

\* createToken(kind) with the default content = this.substring().
createToken(s, kind) ==
    LET sub == lexSubstring(s)
    IN  createTokenWith(sub.st, kind, sub.str)

reportError_AtCursor(s, error, character) ==
    IF ~spanReturns(s.mPosition, s.mPosition + 1)
    THEN [s EXCEPT !.thrown = "RangeError"]
    ELSE LET call == [offset |-> s.mPosition,
                      text |-> substring(s.mPosition, s.mPosition + 1),
                      error |-> error,
                      character |-> character]
         IN  [s EXCEPT !.errors = Append(@, call),
                       !.thrown = IF reporter = "raise" THEN "SyntaxError" ELSE "none"]

\* reportError(error): the span [position, position + 1) is built, then the
\* reporter is called; the default reporter throws a SyntaxError.
reportError(s, error, character) ==
    IF ~spanReturns(s.position, s.position + 1)
    THEN [s EXCEPT !.thrown = "RangeError"]
    ELSE LET call == [offset |-> s.position,
                      text |-> substring(s.position, s.position + 1),
                      error |-> error,
                      character |-> character]
         IN  [s EXCEPT !.errors = Append(@, call),
                       !.thrown = IF reporter = "raise" THEN "SyntaxError" ELSE "none"]

RECURSIVE scanPredicate(_, _)
scanPredicate(s, predicate) ==
    IF hasNext(s) /\ peek(s) \in Accepted(predicate)
    THEN scanPredicate(advance(s).st, predicate)
    ELSE s

RECURSIVE advanceToEOL(_)
advanceToEOL(s) ==
    IF ~hasNext(s) THEN s
    ELSE LET lf == match(s, "\n")
             cr == match(s, "\r")
         IN  IF lf.ok THEN lf.st
             ELSE IF cr.ok THEN match(cr.st, "\n").st
             ELSE advanceToEOL(advance(s).st)

RECURSIVE scanString(_)
scanString(s) ==
    IF hasNext(s)
    THEN LET m == match(s, "'")
         IN  IF m.ok
             THEN LET sub == lexSubstring([m.st EXCEPT !.position = @ + 1])
                      lexeme == StrSubstring(sub.str, 0, Len(sub.str) - 1)
                  IN  createTokenWith(sub.st, "STRING", lexeme)
             ELSE scanString(advance(s).st)
    ELSE LET r == reportError(s, "Unterminated string", "")
         IN  IF r.thrown # "none"
             THEN [tok |-> noToken, st |-> r]
             ELSE createToken([r EXCEPT !.position = @ + 1], "STRING")

scanHexNumber(s) == createToken(scanPredicate(s, "isHexadecimal"), "NUMBER")

scanDigits(s) == createToken(scanPredicate(s, "isDigit"), "NUMBER")

RECURSIVE scanNumberLoop_NoPeriod(_)
scanNumberLoop_NoPeriod(s) ==
    IF ~hasNext(s) \/ ~isDigit(peek(s)) THEN s
    ELSE scanNumberLoop_NoPeriod(advance(s).st)

\* The while loop of scanNumber: digits, up to and including a first period.
RECURSIVE scanNumberLoop(_)
scanNumberLoop(s) ==
    IF ~hasNext(s) THEN s
    ELSE LET next == peek(s)
             period == match(s, ".")
         IN  IF period.ok THEN period.st
             ELSE IF ~isDigit(next) THEN s
             ELSE scanNumberLoop(advance(s).st)

scanNumber(s, starting) ==
    LET X == match(s, "X")
        x == match(s, "x")
        E == match(s, "E")
        e == match(s, "e")
    IN  IF starting = "0" /\ X.ok THEN scanHexNumber(X.st)
        ELSE IF starting = "0" /\ x.ok THEN scanHexNumber(x.st)
        ELSE IF E.ok THEN scanDigits(E.st)
        ELSE IF e.ok THEN scanDigits(e.st)
        ELSE scanDigits(scanNumberLoop(s))

\* ClutchLexer.keywords[identifierOrKeyword] || TokenKind.IDENTIFIER
keywordOrIdentifier(identifierOrKeyword) ==
    IF keywordsGet(identifierOrKeyword) # undefined
    THEN keywordsGet(identifierOrKeyword)
    ELSE "IDENTIFIER"

scanIdentifierOrKeyword(s) ==
    LET sub == lexSubstring(scanPredicate(s, "isIdentifier"))
        c == clearComments(sub.st)
    IN  [tok |-> <<[kind |-> keywordOrIdentifier(sub.str),
                    lexeme |-> sub.str,
                    comments |-> c.comments,
                    offset |-> sub.st.position - Len(sub.str)]>>,
         st |-> c.st]

scanSlash_NoSlashBy(s) ==
    LET slash == match(s, "/")
    IN  IF slash.ok
        THEN LET sub == lexSubstring(advanceToEOL(slash.st))
                 comment == [lexeme |-> Trim(sub.str), offset |-> sub.st.position]
             IN  [tok |-> noToken,
                  st |-> [sub.st EXCEPT !.lastComments = Append(@, comment)]]
        ELSE createToken(s, "SLASH")

scanSlash(s) ==
    LET slash == match(s, "/")
        equals == match(s, "=")
    IN  IF slash.ok
        THEN LET sub == lexSubstring(advanceToEOL(slash.st))
                 comment == [lexeme |-> Trim(sub.str), offset |-> sub.st.position]
             IN  [tok |-> noToken,
                  st |-> [sub.st EXCEPT !.lastComments = Append(@, comment)]]
        ELSE createToken(equals.st, IF equals.ok THEN "SLASH_BY" ELSE "SLASH")


scanToken(s) ==
    LET a == advance(s)
        character == a.character
        t == a.st
        EQ == match(t, "=")
        EQEQ == match(EQ.st, "=")
        PL == match(t, "+")
        MI == match(t, "-")
        RA == match(t, ">")
        LA == match(t, "<")
        PI == match(t, "|")
        AN == match(t, "&")
    IN  IF t.thrown # "none" THEN [tok |-> noToken, st |-> t]
        ELSE CASE character = "(" -> createToken(t, "LEFT_PAREN")
          [] character = ")" -> createToken(t, "RIGHT_PAREN")
          [] character = "{" -> createToken(t, "LEFT_CURLY")
          [] character = "}" -> createToken(t, "RIGHT_CURLY")
          [] character = "." -> createToken(t, "PERIOD")
          [] character = "+" ->
                IF EQ.ok THEN createToken(EQ.st, "PLUS_BY")
                ELSE IF PL.ok THEN createToken(PL.st, "INCREMENT")
                ELSE createToken(t, "PLUS")
          [] character = "-" ->
                IF RA.ok THEN createToken(RA.st, "ARROW")
                ELSE IF EQ.ok THEN createToken(EQ.st, "MINUS_BY")
                ELSE IF MI.ok THEN createToken(MI.st, "DECREMENT")
                ELSE createToken(t, "MINUS")
          [] character = "*" ->
                IF EQ.ok THEN createToken(EQ.st, "STAR_BY")
                ELSE createToken(t, "STAR")
          [] character = "=" ->
                IF EQ.ok
                THEN IF EQEQ.ok THEN createToken(EQEQ.st, "IDENTICAL")
                     ELSE createToken(EQ.st, "EQUALS")
                ELSE createToken(t, "ASSIGN")
          [] character = "<" ->
                IF EQ.ok THEN createToken(EQ.st, "LESS_THAN_OR_EQUAL")
                ELSE IF LA.ok THEN createToken(LA.st, "LEFT_SHIFT")
                ELSE createToken(t, "LESS_THAN")
          [] character = ">" ->
                IF EQ.ok THEN createToken(EQ.st, "GREATER_THAN_OR_EQUAL")
                ELSE IF RA.ok THEN createToken(RA.st, "RIGHT_SHIFT")
                ELSE createToken(t, "GREATER_THAN")
          [] character = "/" -> scanSlash(t)
          [] character = "'" -> scanString(t)
          [] character = "|" ->
                IF PI.ok THEN createToken(PI.st, "OR")
                ELSE createToken(t, "LOGICAL_OR")
          [] character = "&" ->
                IF AN.ok THEN createToken(AN.st, "AND")
                ELSE createToken(t, "LOGICAL_AND")
          [] character = "~" -> createToken(t, "LOGICAL_NOT")
          [] character = "^" -> createToken(t, "LOGICAL_XOR")
          [] character = "!" ->
                IF EQ.ok
                THEN IF EQEQ.ok THEN createToken(EQEQ.st, "NOT_IDENTICAL")
                     ELSE createToken(EQ.st, "NOT_EQUALS")
                ELSE createToken(t, "NEGATE")
          [] OTHER ->
                IF isWhiteSpace(character)
                THEN [tok |-> noToken, st |-> [t EXCEPT !.position = t.mPosition]]
                ELSE IF isDigit(character) THEN scanNumber(t, character)
                ELSE IF isIdentifierStart(character) THEN scanIdentifierOrKeyword(t)
                ELSE [tok |-> noToken,
                      st |-> reportError(t, "Unexpected character", character)]

\* ------------------------------------------------------------------ inputs

\* Every concatenation of at most n of the given pieces.
RECURSIVE Concatenations(_, _)
Concatenations(pieces, n) ==
    IF n = 0 THEN {<<>>}
    ELSE LET shorter == Concatenations(pieces, n - 1)
         IN  shorter \cup {p \o w : p \in shorter, w \in pieces}

\* Operator characters, a quote, white space, a digit, a letter, a period and
\* a character the lexer does not know.
Chars == {<<"+">>, <<"-">>, <<"*">>, <<"=">>, <<"<">>, <<">">>, <<"!">>,
          <<"/">>, <<"|">>, <<"&">>, <<"'">>, <<" ">>, <<"\n">>, <<"1">>,
          <<"a">>, <<".">>, <<"#">>}

\* The keyword texts of the enum, inherited property names, and what may
\* stand between or inside identifiers.
Words == {KeywordValue[k] : k \in Keyword}
         \cup {e[1] : e \in ObjectPrototype}
         \cup {<<"x">>, <<"_">>, <<"1">>, <<" ">>, <<"#">>, <<"'">>, <<"+">>}

\* Whole line comments with their line end, a comment opener, line ends,
\* and tokens of each sort.
Parts == {<<"/", "/", "c", "\n">>, <<"/", "/", " ", "d", "\r", "\n">>,
          <<"/", "/">>, <<"\n">>, <<" ">>, <<"c">>, <<"+">>, <<"'">>, <<"#">>}

\* What numeric literals are made of, and a character the lexer does not
\* know.
NumberChars == {<<"0">>, <<"1">>, <<"x">>, <<"X">>, <<"e">>, <<"E">>, <<".">>,
                <<"#">>}

\* The operator symbols of the grammar's precedence table.
Symbols == {<<"+", "+">>, <<"-", "-">>, <<".">>, <<"-">>, <<"+">>, <<"!">>,
            <<"*">>, <<"/">>, <<"%">>, <<"<">>, <<">">>, <<"<", "=">>,
            <<">", "=">>, <<"=", "=">>, <<"!", "=">>, <<"=", "=", "=">>,
            <<"!", "=", "=">>, <<"&", "&">>, <<"|", "|">>, <<"=">>,
            <<"+", "=">>, <<"-", "=">>, <<"*", "=">>, <<"/", "=">>,
            <<"%", "=">>}

\* ------------------------------------------------------------ scanProgram

\* No call was made on the scanner or the file yet.
noCall == [op |-> "none"]

\* A compilation unit without functions.
emptyUnit == [kind |-> "CompilationUnit", functions |-> <<>>]

\* The lexer and scanner fields as the record the operators work on.
self ==
    [mPosition |-> mPosition, position |-> position,
     lastComments |-> lastComments, errors |-> errors, thrown |-> "none"]

\* tokenize(program, onError): a fresh lexer and scanner at the top of the
\* loop of scanProgram.
Start(inputs) ==
    /\ program \in inputs
    /\ reporter \in {"record", "raise"}
    /\ pc = "scan"
    /\ mPosition = 0
    /\ position = 0
    /\ lastComments = <<>>
    /\ tokens = <<>>
    /\ errors = <<>>
    /\ mLineStartsCache = <<>>
    /\ lastCall = noCall
    /\ ast = emptyUnit
    /\ output = <<>>
    /\ indent = 0
    /\ returned = <<>>
    /\ visited = <<>>

Init == Start(Concatenations(Chars, MaxLen))

InitWords == Start(Concatenations(Words, MaxWords))

InitParts == Start(Concatenations(Parts, MaxParts))

InitSymbols == Start(Concatenations(Symbols, MaxSymbols))

InitNumbers == Start(Concatenations(NumberChars, MaxDigits))

\* One iteration of the loop: scanToken, and the push of its token.
ScanToken ==
    /\ pc = "scan"
    /\ hasNext(self)
    /\ LET r == scanToken(self)
       IN  /\ mPosition' = r.st.mPosition
           /\ position' = r.st.position
           /\ lastComments' = r.st.lastComments
           /\ errors' = r.st.errors
           /\ pc' = IF r.st.thrown = "none" THEN "scan" ELSE r.st.thrown
           /\ tokens' = IF r.st.thrown = "none" THEN tokens \o r.tok ELSE tokens
    /\ UNCHANGED <<program, reporter, fileVars, visitorVars>>

Return_DefaultContent ==
    /\ pc = "scan"
    /\ ~hasNext(self)
    /\ LET r == createToken(self, "EOF")
       IN  /\ tokens' = tokens \o r.tok
           /\ lastComments' = r.st.lastComments
           /\ position' = r.st.position
    /\ pc' = "done"
    /\ UNCHANGED <<program, reporter, mPosition, errors, fileVars, visitorVars>>

Return_DiscardComments ==
    /\ pc = "scan"
    /\ ~hasNext(self)
    /\ tokens' = tokens \o <<[kind |-> "EOF", lexeme |-> <<>>, comments |-> <<>>,
                               offset |-> position]>>
    /\ lastComments' = <<>>
    /\ pc' = "done"
    /\ UNCHANGED <<program, reporter, mPosition, position, errors, fileVars,
                   visitorVars>>

\* The end of the loop: the EOF token is pushed and the list returned.
Return ==
    /\ pc = "scan"
    /\ ~hasNext(self)
    /\ LET r == createTokenWith(self, "EOF", <<>>)
       IN  /\ tokens' = tokens \o r.tok
           /\ lastComments' = r.st.lastComments
    /\ pc' = "done"
    /\ UNCHANGED <<program, reporter, mPosition, position, errors, fileVars,
                   visitorVars>>

Next == ScanToken \/ Return

Spec == Init /\ [][Next]_vars

SpecWords == InitWords /\ [][Next]_vars

SpecParts == InitParts /\ [][Next]_vars

SpecSymbols == InitSymbols /\ [][Next]_vars

SpecNumbers == InitNumbers /\ [][Next]_vars

\* ------------------------------------------ scanProgram on a used lexer

\* A line comment, a character the lexer does not know, and a token.
ReuseParts == {<<"/", "/", "c", "\n">>, <<"#">>, <<"+">>}

\* The fields of a new lexer over a new scanner.
fresh ==
    [mPosition |-> 0, position |-> 0, lastComments |-> <<>>, errors |-> <<>>,
     thrown |-> "none"]

\* The loop of scanProgram run to its end from s with the tokens toks: what
\* it throws, or the list it returns.
RECURSIVE scanProgram(_, _)
scanProgram(s, toks) ==
    IF s.thrown # "none" THEN threw(s.thrown)
    ELSE IF hasNext(s)
         THEN LET r == scanToken(s) IN scanProgram(r.st, toks \o r.tok)
         ELSE gave(toks \o createTokenWith(s, "EOF", <<>>).tok)

InitReuse == Start(Concatenations(ReuseParts, MaxReuseParts))

\* scanProgram is called again on the same lexer, with a new scanner and a
\* reporter, after the call before returned or threw: position, program and
\* onError are assigned and the token list is new; lastComments is not
\* touched.
ScanProgram ==
    /\ pc \notin {"scan", "idle"}
    /\ Len(lastComments) <= MaxBuffered
    /\ program' \in Concatenations(ReuseParts, MaxReuseParts)
    /\ reporter' \in {"record", "raise"}
    /\ pc' = "scan"
    /\ position' = 0
    /\ mPosition' = 0
    /\ tokens' = <<>>
    /\ errors' = <<>>
    /\ UNCHANGED <<lastComments, fileVars, visitorVars>>

NextReuse == ScanToken \/ Return \/ ScanProgram

SpecReuse == InitReuse /\ [][NextReuse]_vars

\* ------------------------------------------------------------- SourceFile

\* Longest contents, in characters, of a file queried or scanned directly.
MaxFileLen == 3

\* An element read from an array: <<>> stands for undefined, <<v>> for v.
at(array, i) == IF i >= 0 /\ i < Len(array) THEN <<array[i + 1]>> ELSE <<>>

\* a < b, a >= b and b > a where b was read from an array: a comparison with
\* undefined is false.
lessThan(a, b) == b # <<>> /\ a < b[1]

atLeast(a, b) == b # <<>> /\ a >= b[1]

greaterThan(b, a) == b # <<>> /\ b[1] > a

\* b || 0 where b was read from an array.
orZero(b) == IF b = <<>> THEN 0 ELSE b[1]

RECURSIVE lineStartsFrom_EveryCr(_)
lineStartsFrom_EveryCr(i) ==
    IF i >= length THEN <<>>
    ELSE (IF charCodeAt(i) \in {"\n", "\r"} THEN <<i + 1>> ELSE <<>>)
            \o lineStartsFrom_EveryCr(i + 1)

\* The loop of computeLineStarts from index i on.
RECURSIVE lineStartsFrom(_)
lineStartsFrom(i) ==
    IF i >= length THEN <<>>
    ELSE LET j == i + 1
             c == IF charCodeAt(i) = "\r" /\ (j >= length \/ charCodeAt(j) # "\n")
                  THEN "\n"
                  ELSE charCodeAt(i)
         IN  (IF c = "\n" THEN <<i + 1>> ELSE <<>>) \o lineStartsFrom(i + 1)

\* computeLineStarts: the cache afterwards.
computeLineStarts(cache) ==
    IF cache # <<>> THEN cache ELSE <<lineStartsFrom(0)>>

\* The lineStarts getter: the cache afterwards and the table returned.
lineStarts(cache) ==
    [cache |-> computeLineStarts(cache), table |-> computeLineStarts(cache)[1]]

RECURSIVE binarySearchLoop(_, _, _, _)
binarySearchLoop(table, min, max, offset) ==
    IF min < max
    THEN LET half == min + ((max - min) \div 2)
         IN  IF greaterThan(at(table, half), offset)
             THEN binarySearchLoop(table, min, half, offset)
             ELSE binarySearchLoop(table, half + 1, max, offset)
    ELSE max

binarySearch(table, offset) == binarySearchLoop(table, 0, Len(table) - 1, offset)

\* computeLine(offset), with the cache afterwards.
computeLine(cache, offset) ==
    IF ~validOffset(offset) THEN [out |-> threw("RangeError"), cache |-> cache]
    ELSE LET l == lineStarts(cache)
         IN  [cache |-> l.cache,
              out |-> gave(IF lessThan(offset, at(l.table, 0)) THEN 0
                           ELSE IF atLeast(offset, at(l.table, Len(l.table) - 1))
                                THEN Len(l.table)
                                ELSE binarySearch(l.table, offset))]

computeColumn_NoStepBack(cache, offset) ==
    IF ~validOffset(offset) THEN [out |-> threw("RangeError"), cache |-> cache]
    ELSE LET l == computeLine(cache, offset)
             line == l.out.result
             start == orZero(at(lineStarts(l.cache).table, line))
         IN  [cache |-> l.cache, out |-> gave(offset - start)]

\* computeColumn(offset), with the cache afterwards.
computeColumn(cache, offset) ==
    IF ~validOffset(offset) THEN [out |-> threw("RangeError"), cache |-> cache]
    ELSE LET l == computeLine(cache, offset)
             line == l.out.result - 1
             start == orZero(at(lineStarts(l.cache).table, line))
         IN  [cache |-> l.cache, out |-> gave(offset - start)]

span_EndBeforeLength(start, end) ==
    IF spanReturns(start, end) /\ end < length
    THEN gave([offset |-> start, text |-> StrSubstring(program, start, end),
               length |-> Len(StrSubstring(program, start, end))])
    ELSE threw("RangeError")

\* span(start, end): the FileSpan's offset and text, and the length its
\* getter gives.
span(start, end) ==
    IF spanReturns(start, end)
    THEN gave([offset |-> start, text |-> StrSubstring(program, start, end),
               length |-> Len(StrSubstring(program, start, end))])
    ELSE threw("RangeError")

\* ----------------------------------------------------------- StringScanner

\* How far past the end of the contents the cursor is followed.
MaxOvershoot == 1

\* A Matcher: the lexer's predicates, and one that holds of everything but a
\* line feed, NaN included.
Matchers == {"isIdentifier", "isNotLineFeed"}

Matches(matcher, char) ==
    IF matcher = "isNotLineFeed" THEN char # "\n" ELSE char \in Accepted(matcher)

\* String.prototype.startsWith(pattern, at).
startsWith(str, pattern, from) ==
    LET p == Min(Max(from, 0), Len(str))
    IN  /\ p + Len(pattern) <= Len(str)
        /\ SubSeq(str, p + 1, p + Len(pattern)) = pattern

\* match(substring: string).
matchString(s, pattern) ==
    IF startsWith(program, pattern, s.mPosition)
    THEN [ok |-> TRUE, st |-> [s EXCEPT !.mPosition = @ + Len(pattern)]]
    ELSE [ok |-> FALSE, st |-> s]

\* match(matcher: Matcher).
matchMatcher(s, matcher) ==
    IF Matches(matcher, peek(s))
    THEN [ok |-> TRUE, st |-> [s EXCEPT !.mPosition = @ + 1]]
    ELSE [ok |-> FALSE, st |-> s]

\* The position setter.
setPosition(s, p) ==
    IF assertRange(p) THEN [s EXCEPT !.mPosition = p]
    ELSE [s EXCEPT !.thrown = "RangeError"]

\* reset().
reset(s) == setPosition(s, 0)

\* ------------------------------------------- calls on a file and a scanner

\* Letters, line feeds and carriage returns.
FileChars == {<<"a">>, <<"\n">>, <<"\r">>}

\* The offsets a caller passes: every valid one, and one beyond either end.
Offsets == -1 .. length + 1

\* new StringScanner(data), and its SourceFile: nothing was called yet.
InitFile ==
    /\ program \in Concatenations(FileChars, MaxFileLen)
    /\ reporter = "record"
    /\ pc = "idle"
    /\ mPosition = 0
    /\ position = 0
    /\ lastComments = <<>>
    /\ tokens = <<>>
    /\ errors = <<>>
    /\ mLineStartsCache = <<>>
    /\ lastCall = noCall
    /\ ast = emptyUnit
    /\ output = <<>>
    /\ indent = 0
    /\ returned = <<>>
    /\ visited = <<>>

\* The record of a call: what was called with what, where the cursor was, and
\* what came of it.
Called(op, args, out) ==
    [op |-> op, args |-> args, before |-> mPosition,
     thrown |-> out.thrown, result |-> out.result]

ComputeLine ==
    /\ pc = "idle"
    /\ \E offset \in Offsets :
        LET r == computeLine(mLineStartsCache, offset)
        IN  /\ mLineStartsCache' = r.cache
            /\ lastCall' = Called("computeLine", <<offset>>, r.out)
    /\ UNCHANGED <<program, mPosition, lexerVars, visitorVars>>

ComputeColumn ==
    /\ pc = "idle"
    /\ \E offset \in Offsets :
        LET r == computeColumn(mLineStartsCache, offset)
        IN  /\ mLineStartsCache' = r.cache
            /\ lastCall' = Called("computeColumn", <<offset>>, r.out)
    /\ UNCHANGED <<program, mPosition, lexerVars, visitorVars>>

Span ==
    /\ pc = "idle"
    /\ \E start \in Offsets, end \in Offsets :
        lastCall' = Called("span", <<start, end>>, span(start, end))
    /\ UNCHANGED <<program, mPosition, mLineStartsCache, lexerVars, visitorVars>>

NextFile == ComputeLine \/ ComputeColumn \/ Span

SpecFile == InitFile /\ [][NextFile]_vars

\* A scanner call that left the scanner as st.
Scanned(op, args, st, value) ==
    /\ mPosition' = st.mPosition
    /\ lastCall' = Called(op, args, IF st.thrown = "none" THEN gave(value)
                                    ELSE threw(st.thrown))
    /\ UNCHANGED <<program, mLineStartsCache, lexerVars, visitorVars>>

Advance ==
    /\ pc = "idle"
    /\ LET r == advance(self) IN Scanned("advance", <<>>, r.st, r.character)

MatchCode ==
    /\ pc = "idle"
    /\ \E w \in FileChars :
        LET r == match(self, w[1]) IN Scanned("matchCode", w, r.st, r.ok)

MatchString ==
    /\ pc = "idle"
    /\ \E pattern \in Concatenations(FileChars, 2) :
        LET r == matchString(self, pattern)
        IN  Scanned("matchString", <<pattern>>, r.st, r.ok)

MatchMatcher ==
    /\ pc = "idle"
    /\ mPosition < length + MaxOvershoot
    /\ \E matcher \in Matchers :
        LET r == matchMatcher(self, matcher)
        IN  Scanned("matchMatcher", <<matcher>>, r.st, r.ok)

Peek ==
    /\ pc = "idle"
    /\ Scanned("peek", <<>>, self, peek(self))

HasNext ==
    /\ pc = "idle"
    /\ Scanned("hasNext", <<>>, self, hasNext(self))

Substring ==
    /\ pc = "idle"
    /\ \E start \in Offsets, end \in Offsets :
        Scanned("substring", <<start, end>>, self, substring(start, end))

SetPosition ==
    /\ pc = "idle"
    /\ \E p \in Offsets :
        Scanned("position", <<p>>, setPosition(self, p), <<>>)

Reset ==
    /\ pc = "idle"
    /\ Scanned("reset", <<>>, reset(self), <<>>)

NextScanner ==
    \/ Advance
    \/ MatchCode
    \/ MatchString
    \/ MatchMatcher
    \/ Peek
    \/ HasNext
    \/ Substring
    \/ SetPosition
    \/ Reset

SpecScanner == InitFile /\ [][NextScanner]_vars

\* -------------------------------------------------------------------- nodes

AstCompilationUnit(functions) ==
    [kind |-> "CompilationUnit", functions |-> functions]

AstFunctionDeclaration(name, body) ==
    [kind |-> "FunctionDeclaration", name |-> name, body |-> body]

AstVariableDeclaration(name, value) ==
    [kind |-> "VariableDeclaration", name |-> name, value |-> value]

AstReturnStatement(value) == [kind |-> "ReturnStatement", value |-> value]

AstParenthesizedExpression(body) ==
    [kind |-> "ParenthesizedExpression", body |-> body]

AstIfExpression(ifExpression, ifBody, elseBody) ==
    [kind |-> "IfExpression", ifExpression |-> ifExpression,
     ifBody |-> ifBody, elseBody |-> elseBody]

AstInvocationExpression(target, args) ==
    [kind |-> "InvocationExpression", target |-> target, args |-> args]

\* The value of a literal, known by the text that `${node.value}` gives.
Value(text) == [text |-> text]

AstLiteralBoolean(value) == [kind |-> "LiteralBoolean", value |-> Value(value)]

AstLiteralNumber(value) == [kind |-> "LiteralNumber", value |-> Value(value)]

AstLiteralString(value) == [kind |-> "LiteralString", value |-> Value(value)]

AstLiteralIdentifier(name) == [kind |-> "LiteralIdentifier", name |-> name]

\* ----------------------------------------------------------------- visitors

\* PrintTreeVisitor's constructor argument, at its default.
indentBy == 2

\* A visitor: its class, the fields of a PrintTreeVisitor, and the nodes whose
\* visit method was called with it, in order.
Visitor(class, out, level) ==
    [class |-> class, output |-> out, indent |-> level, visited |-> <<>>]

\* A hook of the visitor is entered for the node.
entered(v, node) == [v EXCEPT !.visited = Append(@, node)]

\* node.visit(visitor): the node calls the hook of its kind.
RECURSIVE visit(_, _)

\* for (const e of nodes) e.visit(this), and nodes.forEach(e => e.visit(this)).
RECURSIVE visitEach(_, _)
visitEach(v, nodes) ==
    IF nodes = <<>> THEN v ELSE visitEach(visit(v, Head(nodes)), Tail(nodes))

AstVisitor_visitCompilationUnit(v, node) == visitEach(v, node.functions)

AstVisitor_visitFunctionDeclaration(v, node) == visitEach(v, node.body)

AstVisitor_visitVariableDeclaration(v, node) == visit(v, node.value)

AstVisitor_visitParenthesizedExpression(v, node) == visitEach(v, node.body)

AstVisitor_visitIfExpression_ElseFirst(v, node) ==
    visitEach(visitEach(visit(v, node.ifExpression), node.elseBody), node.ifBody)

AstVisitor_visitIfExpression(v, node) ==
    visitEach(visitEach(visit(v, node.ifExpression), node.ifBody), node.elseBody)

AstVisitor_visitInvocationExpression(v, node) == visitEach(v, node.args)

AstVisitor_visitReturnStatement(v, node) == visit(v, node.value)

indentMore(v) == [v EXCEPT !.indent = @ + indentBy]

indentLess(v) == [v EXCEPT !.indent = @ - indentBy]

\* write(message): one more line, the message behind `indent` spaces.
write(v, message) ==
    [v EXCEPT !.output = Append(@, [indent |-> v.indent, message |-> message])]

\* The visitor when PrintTreeVisitor.visitCompilationUnit returns; what it
\* returns is the output of that visitor.
PrintTreeVisitor_visitCompilationUnit(v, node) ==
    indentLess(AstVisitor_visitCompilationUnit(
        indentMore(write(v, "CompilationUnit")), node))

PrintTreeVisitor_visitFunctionDeclaration(v, node) ==
    indentLess(AstVisitor_visitFunctionDeclaration(
        indentMore(write(v, "FunctionDeclaration (name = " \o node.name \o ")")),
        node))

PrintTreeVisitor_visitVariableDeclaration(v, node) ==
    indentLess(AstVisitor_visitVariableDeclaration(
        indentMore(write(v, "VariableDeclaration (name = " \o node.name \o ")")),
        node))

PrintTreeVisitor_visitIfExpression(v, node) ==
    LET v1 == indentMore(write(v, "IfExpression"))
        v2 == indentLess(visit(indentMore(write(v1, "If")), node.ifExpression))
        v3 == indentLess(visitEach(indentMore(write(v2, "Then")), node.ifBody))
        v4 == IF Len(node.elseBody) > 0
              THEN indentLess(visitEach(indentMore(write(v3, "Else")),
                                        node.elseBody))
              ELSE v3
    IN  indentLess(v4)

PrintTreeVisitor_visitLiteralBoolean(v, node) ==
    write(v, "LiteralBoolean: " \o node.value.text)

PrintTreeVisitor_visitLiteralNumber(v, node) ==
    write(v, "LiteralNumber: " \o node.value.text)

PrintTreeVisitor_visitLiteralString(v, node) ==
    write(v, "LiteralString: " \o node.value.text)

PrintTreeVisitor_visitLiteralIdentifier(v, node) ==
    write(v, "LiteralIdentifier: " \o node.name)

PrintTreeVisitor_visitInvocationExpression(v, node) ==
    LET v1 == indentMore(write(v, "InvocationExpression:"))
        v2 == indentLess(visit(indentMore(write(v1, "Target:")), node.target))
        v3 == indentMore(write(v2, "Args:"))
    IN  indentLess(AstVisitor_visitInvocationExpression(v3, node))

PrintTreeVisitor_visitParenthesizedExpression(v, node) ==
    indentLess(AstVisitor_visitParenthesizedExpression(
        indentMore(write(v, "ParenthesizedExpression:")), node))

PrintTreeVisitor_visitReturnStatement(v, node) ==
    indentLess(AstVisitor_visitReturnStatement(
        indentMore(write(v, "ReturnStatement")), node))

\* The hook of a PrintTreeVisitor for the node's kind.
PrintTreeVisitor_hook(v, node) ==
    CASE node.kind = "CompilationUnit" ->
            PrintTreeVisitor_visitCompilationUnit(v, node)
      [] node.kind = "FunctionDeclaration" ->
            PrintTreeVisitor_visitFunctionDeclaration(v, node)
      [] node.kind = "VariableDeclaration" ->
            PrintTreeVisitor_visitVariableDeclaration(v, node)
      [] node.kind = "IfExpression" -> PrintTreeVisitor_visitIfExpression(v, node)
      [] node.kind = "LiteralBoolean" ->
            PrintTreeVisitor_visitLiteralBoolean(v, node)
      [] node.kind = "LiteralNumber" -> PrintTreeVisitor_visitLiteralNumber(v, node)
      [] node.kind = "LiteralString" -> PrintTreeVisitor_visitLiteralString(v, node)
      [] node.kind = "LiteralIdentifier" ->
            PrintTreeVisitor_visitLiteralIdentifier(v, node)
      [] node.kind = "InvocationExpression" ->
            PrintTreeVisitor_visitInvocationExpression(v, node)
      [] node.kind = "ParenthesizedExpression" ->
            PrintTreeVisitor_visitParenthesizedExpression(v, node)
      [] node.kind = "ReturnStatement" ->
            PrintTreeVisitor_visitReturnStatement(v, node)

\* The hook of a visitor that inherits every hook AstVisitor defines and does
\* nothing in the four it must define itself.
AstVisitor_hook(v, node) ==
    CASE node.kind = "CompilationUnit" -> AstVisitor_visitCompilationUnit(v, node)
      [] node.kind = "FunctionDeclaration" ->
            AstVisitor_visitFunctionDeclaration(v, node)
      [] node.kind = "VariableDeclaration" ->
            AstVisitor_visitVariableDeclaration(v, node)
      [] node.kind = "IfExpression" -> AstVisitor_visitIfExpression(v, node)
      [] node.kind = "InvocationExpression" ->
            AstVisitor_visitInvocationExpression(v, node)
      [] node.kind = "ParenthesizedExpression" ->
            AstVisitor_visitParenthesizedExpression(v, node)
      [] node.kind = "ReturnStatement" -> AstVisitor_visitReturnStatement(v, node)
      [] OTHER -> v

visit(v, node) ==
    IF v.class = "PrintTreeVisitor"
    THEN PrintTreeVisitor_hook(entered(v, node), node)
    ELSE AstVisitor_hook(entered(v, node), node)

\* --------------------------------------------------------- calls on visitors

\* Most nodes of a compilation unit below the unit itself.
MaxNodes == 5
\* Most calls of PrintTreeVisitor.visitCompilationUnit that are followed.
MaxCalls == 2

\* The literal that stands in each place: a number in a list (a body, the
\* arguments), a string as a value, a boolean as a condition, an identifier
\* as a target.
Literal(place) ==
    CASE place = "listed" -> AstLiteralNumber("1")
      [] place = "value" -> AstLiteralString("s")
      [] place = "condition" -> AstLiteralBoolean("true")
      [] place = "target" -> AstLiteralIdentifier("x")

\* The statements and expressions of exactly n nodes that may stand in the
\* place, and the lists of them of n nodes in all.
RECURSIVE Elements(_, _)
RECURSIVE Bodies(_)
Elements(n, place) ==
    IF n <= 0 THEN {}
    ELSE (IF n = 1 THEN {Literal(place)} ELSE {})
         \cup {AstParenthesizedExpression(b) : b \in Bodies(n - 1)}
         \cup {AstReturnStatement(e) : e \in Elements(n - 1, "value")}
         \cup {AstVariableDeclaration("x", e) : e \in Elements(n - 1, "value")}
         \cup UNION {{AstInvocationExpression(t, a) :
                        t \in Elements(k, "target"), a \in Bodies(n - 1 - k)} :
                     k \in 1..(n - 1)}
         \cup UNION {UNION {{AstIfExpression(c, t, e) :
                               c \in Elements(k, "condition"), t \in Bodies(j),
                               e \in Bodies(n - 1 - k - j)} :
                            j \in 0..(n - 1 - k)} :
                     k \in 1..(n - 1)}

Bodies(n) ==
    IF n = 0 THEN {<<>>}
    ELSE UNION {{<<e>> \o b : e \in Elements(k, "listed"), b \in Bodies(n - k)} :
                k \in 1..n}

\* The lists of function declarations of n nodes in all.
RECURSIVE FunctionLists(_)
FunctionLists(n) ==
    IF n = 0 THEN {<<>>}
    ELSE UNION {{<<AstFunctionDeclaration("f", b)>> \o fs :
                   b \in Bodies(k - 1), fs \in FunctionLists(n - k)} :
                k \in 1..n}

\* The compilation units of at most n nodes below the unit.
CompilationUnits(n) ==
    UNION {{AstCompilationUnit(fs) : fs \in FunctionLists(k)} : k \in 0..n}

\* An AST, a new PrintTreeVisitor, and no visit made yet.
InitVisitor ==
    /\ ast \in CompilationUnits(MaxNodes)
    /\ program = <<>>
    /\ reporter = "record"
    /\ pc = "idle"
    /\ mPosition = 0
    /\ position = 0
    /\ lastComments = <<>>
    /\ tokens = <<>>
    /\ errors = <<>>
    /\ mLineStartsCache = <<>>
    /\ lastCall = noCall
    /\ output = <<>>
    /\ indent = 0
    /\ returned = <<>>
    /\ visited = <<>>

\* A call of visitCompilationUnit(ast) on the given PrintTreeVisitor: the
\* fields of the visitor afterwards, and what the call returned, whether to a
\* new visitor, and through which hooks.
Visited(new, visitor) ==
    LET v == PrintTreeVisitor_visitCompilationUnit(entered(visitor, ast), ast)
    IN  /\ output' = v.output
        /\ indent' = v.indent
        /\ returned' = Append(returned, [new |-> new, value |-> v.output,
                                         hooks |-> v.visited])
        /\ UNCHANGED <<program, mPosition, lexerVars, fileVars, ast, visited>>

\* new PrintTreeVisitor().visitCompilationUnit(ast): the new visitor takes
\* the place of the one used so far.
VisitWithNewVisitor ==
    /\ Len(returned) < MaxCalls
    /\ Visited(TRUE, Visitor("PrintTreeVisitor", <<>>, 0))

\* visitCompilationUnit(ast) once more on the visitor that was used last.
VisitAgain ==
    /\ returned # <<>>
    /\ Len(returned) < MaxCalls
    /\ Visited(FALSE, Visitor("PrintTreeVisitor", output, indent))

\* visitCompilationUnit(ast) on a visitor that has the hooks of AstVisitor.
Walk ==
    /\ visited = <<>>
    /\ visited' = AstVisitor_visitCompilationUnit(
                      entered(Visitor("AstVisitor", <<>>, 0), ast), ast).visited
    /\ UNCHANGED <<program, mPosition, lexerVars, fileVars, ast, output, indent,
                   returned>>

NextVisitor == VisitWithNewVisitor \/ VisitAgain \/ Walk

SpecVisitor == InitVisitor /\ [][NextVisitor]_vars


\* ------------------------------------------------------------------ claims

last(seq) == seq[Len(seq)]

\* This step pushed a token.
Emitted == Len(tokens') = Len(tokens) + 1

\* scanToken is about to run.
AtScanToken == pc = "scan" /\ hasNext(self)

\* C1: when tokenize returns, the list is non-empty, its last token has kind
\* EOF and an empty lexeme, no other token has kind EOF, and the list for the
\* empty input is exactly [EOF].
C1_EndsWithOneEof ==
    pc = "done" =>
        /\ Len(tokens) >= 1
        /\ last(tokens).kind = "EOF"
        /\ last(tokens).lexeme = <<>>
        /\ \A i \in 1..(Len(tokens) - 1) : tokens[i].kind # "EOF"
        /\ (program = <<>> => Len(tokens) = 1)

\* The list was returned after the reporter was called, and returned, and
\* holds tokens before the EOF.
C1_Witness == pc = "done" /\ errors # <<>> /\ Len(tokens) >= 2

\* C2: every emitted token that is neither EOF nor STRING has as lexeme the
\* text of the input at [offset, offset + lexeme.length).
C2_LexemeIsSourceText ==
    \A i \in 1..Len(tokens) :
        tokens[i].kind \notin {"EOF", "STRING"} =>
            substring(tokens[i].offset, tokens[i].offset + Len(tokens[i].lexeme))
                = tokens[i].lexeme

\* A token of two characters or more that does not start the input was
\* returned, after a reported error.
C2_Witness ==
    /\ pc = "done"
    /\ errors # <<>>
    /\ \E i \in 1..Len(tokens) :
        /\ tokens[i].kind \notin {"EOF", "STRING"}
        /\ tokens[i].offset > 0
        /\ Len(tokens[i].lexeme) >= 2

\* C3: the offsets of the tokens are non-decreasing in list order.
C3_OffsetsNonDecreasing ==
    \A i \in 1..Len(tokens) : \A j \in i..Len(tokens) :
        tokens[i].offset <= tokens[j].offset

\* A STRING token and a later token were returned after a reported error.
C3_Witness ==
    /\ pc = "done"
    /\ errors # <<>>
    /\ \E i \in 1..Len(tokens) : tokens[i].kind = "STRING" /\ i + 2 <= Len(tokens)

IsPrefix(p, str) == Len(p) <= Len(str) /\ SubSeq(str, 1, Len(p)) = p

\* The input from the cursor on.
Rest == substring(mPosition, length)

\* The entry of the operator table with the longest text that starts str.
LongestOperator(str) ==
    CHOOSE e \in OperatorValue :
        /\ IsPrefix(e[2], str)
        /\ \A f \in OperatorValue : IsPrefix(f[2], str) => Len(f[2]) <= Len(e[2])

OperatorStart == {"+", "-", "*", "=", "<", ">", "!", "/", "|", "&"}

\* C4: a scanToken that starts at an operator character emits one token, of
\* the kind of the longest operator that starts the remaining input, and moves
\* the cursor by that operator's length; at `//` it emits no token and buffers
\* a line comment.
C4_MaximalMunch ==
    [][(AtScanToken /\ peek(self) \in OperatorStart) =>
            IF IsPrefix(<<"/", "/">>, Rest)
            THEN tokens' = tokens /\ Len(lastComments') = Len(lastComments) + 1
            ELSE /\ Emitted
                 /\ last(tokens').kind = LongestOperator(Rest)[1]
                 /\ mPosition' = mPosition + Len(LongestOperator(Rest)[2])]_vars

\* A two-character operator was emitted after a reported error.
C4_Witness ==
    /\ errors # <<>>
    /\ \E i \in 1..Len(tokens) :
        tokens[i].kind \in {"EQUALS", "NOT_EQUALS", "ARROW", "LEFT_SHIFT", "SLASH_BY"}

\* Where the run of identifier characters that holds offset i ends.
RECURSIVE RunEnd(_)
RunEnd(i) == IF isIdentifier(charCodeAt(i)) THEN RunEnd(i + 1) ELSE i

\* scanToken is about to run at a maximal run of identifier characters that
\* starts as an identifier does; `AtRun` is its text.
AtIdentifierRun ==
    /\ AtScanToken
    /\ isIdentifierStart(peek(self))
    /\ ~isIdentifier(charCodeAt(mPosition - 1))

AtRun == substring(mPosition, RunEnd(mPosition))

\* C5: each of the eleven keyword texts, as a maximal identifier run, is
\* emitted as a token of its keyword kind.
C5_KeywordKinds ==
    [][\A k \in Keyword :
        (AtIdentifierRun /\ AtRun = KeywordValue[k]) =>
            Emitted /\ last(tokens').kind = k]_vars

\* The text of an identifier.
IsIdentifierText(str) ==
    /\ str # <<>>
    /\ isIdentifierStart(str[1])
    /\ \A i \in 1..Len(str) : isIdentifier(str[i])

\* C6: every token's kind is a member of TokenKind, and every identifier run
\* whose text is no entry of the keyword table has kind IDENTIFIER.
C6_KindsAreTokenKinds ==
    \A i \in 1..Len(tokens) :
        /\ tokens[i].kind \in TokenKind
        /\ (/\ tokens[i].kind # "STRING"
            /\ IsIdentifierText(tokens[i].lexeme)
            /\ \A e \in keywords : e[1] # tokens[i].lexeme)
           => tokens[i].kind = "IDENTIFIER"

\* scanToken is about to run at the `//` that opens a line comment.
AtLineComment == AtScanToken /\ IsPrefix(<<"/", "/">>, Rest)

\* C7: a line comment is buffered when it is scanned, behind the comments
\* already waiting; the first token pushed after it takes the whole buffer, in
\* that order, and empties it; no other step changes the buffer or a token
\* already pushed.  So each comment that a token follows is in the list of
\* exactly one token, the next one, and a token with no comment before it has
\* an empty list.
C7_CommentsGoToNextToken ==
    [][/\ AtLineComment =>
            /\ tokens' = tokens
            /\ Len(lastComments') = Len(lastComments) + 1
            /\ SubSeq(lastComments', 1, Len(lastComments)) = lastComments
       /\ (~AtLineComment /\ Len(tokens') = Len(tokens)) =>
            /\ tokens' = tokens
            /\ lastComments' = lastComments
       /\ Len(tokens') # Len(tokens) =>
            /\ Emitted
            /\ SubSeq(tokens', 1, Len(tokens)) = tokens
            /\ last(tokens').comments = lastComments
            /\ lastComments' = <<>>]_vars

\* A token that is not the first and not EOF holds two comments, and the
\* token after it holds none.
C7_Witness ==
    \E i \in 2..Len(tokens) :
        /\ tokens[i].kind # "EOF"
        /\ Len(tokens[i].comments) = 2
        /\ i < Len(tokens)
        /\ tokens[i + 1].comments = <<>>

\* str without its first line and that line's terminator.
RECURSIVE AfterLine(_)
AfterLine(str) ==
    IF str = <<>> THEN <<>>
    ELSE IF Head(str) \in {"\n", "\r"} THEN Tail(str)
    ELSE AfterLine(Tail(str))

\* The number of line comments of a text made only of line comments and white
\* space; -1 for any other text.
RECURSIVE CommentCount(_)
CommentCount(str) ==
    IF str = <<>> THEN 0
    ELSE IF isWhiteSpace(Head(str)) THEN CommentCount(Tail(str))
    ELSE IF IsPrefix(<<"/", "/">>, str)
         THEN LET n == CommentCount(AfterLine(str))
              IN  IF n < 0 THEN -1 ELSE n + 1
         ELSE -1

\* C8 as stated: the EOF token holds no comment, and an input of comments and
\* white space alone gives exactly [EOF].
C8_TrailingCommentsDiscarded ==
    pc = "done" =>
        /\ last(tokens).comments = <<>>
        /\ (CommentCount(program) >= 0 => Len(tokens) = 1)

\* C8 as amended: the EOF token takes the comments still buffered when the
\* input ends, in order, and none is dropped; an input of comments and white
\* space alone gives exactly [EOF], which holds every comment of the input.
C8_TrailingCommentsOnEof ==
    [][(pc = "scan" /\ pc' = "done") =>
            /\ last(tokens').kind = "EOF"
            /\ last(tokens').comments = lastComments
            /\ lastComments' = <<>>
            /\ (CommentCount(program) >= 0 =>
                    /\ Len(tokens') = 1
                    /\ Len(last(tokens').comments) = CommentCount(program))]_vars

\* An input of two comments and nothing else was tokenized.
C8_Witness ==
    /\ pc = "done"
    /\ CommentCount(program) = 2
    /\ Len(tokens) = 1
    /\ Len(tokens[1].comments) = 2

\* The offset of the first quote at or after offset i, or the length.
RECURSIVE NextQuote(_)
NextQuote(i) ==
    IF i >= length \/ charCodeAt(i) = "'" THEN Min(i, length) ELSE NextQuote(i + 1)

\* C9: a scanToken that starts at a quote emits exactly one STRING token,
\* whose lexeme is the text between that quote and the next one, or to the
\* end of input when there is none; the reporter is called, once and with
\* 'Unterminated string', exactly when there is none.
C9_StringLexeme ==
    [][(AtScanToken /\ peek(self) = "'" /\ reporter = "record") =>
            LET close == NextQuote(mPosition + 1)
            IN  /\ Emitted
                /\ last(tokens').kind = "STRING"
                /\ last(tokens').lexeme = substring(mPosition + 1, close)
                /\ IF close < length
                   THEN errors' = errors
                   ELSE /\ Len(errors') = Len(errors) + 1
                        /\ last(errors').error = "Unterminated string"]_vars

\* C10: the offset of a STRING token is that of its opening quote or of the
\* character after it.
C10_StringOffset ==
    [][(AtScanToken /\ peek(self) = "'" /\ Emitted) =>
            last(tokens').offset \in {mPosition, mPosition + 1}]_vars


\* C11: with a reporter that returns, no step of scanProgram throws, every
\* scanToken moves the cursor forward by at least one character and never past
\* the end of the input, and the step taken with the cursor at the end is the
\* return.  The distance of the cursor to the end of the input is a natural
\* number that falls with every scanToken, so scanProgram returns after at
\* most as many steps as the input has characters, plus one.
C11_AdvancesAndTerminates ==
    [][reporter = "record" =>
        /\ pc' \in {"scan", "done"}
        /\ (pc' = "scan" => mPosition < mPosition' /\ mPosition' <= length)
        /\ (pc' = "done" => mPosition = length /\ mPosition' = mPosition)]_vars

\* An input of three characters or more was tokenized to its end after the
\* reporter was called twice.
C11_Witness ==
    pc = "done" /\ reporter = "record" /\ Len(errors) >= 2 /\ Len(program) >= 3

\* C12: every call of the reporter passes a span of exactly one character that
\* lies inside the input, and building the span never throws.
C12_ErrorSpans ==
    /\ pc # "RangeError"
    /\ \A i \in 1..Len(errors) :
        /\ errors[i].offset >= 0
        /\ errors[i].offset + 1 <= length
        /\ Len(errors[i].text) = 1
        /\ errors[i].text = <<program[errors[i].offset + 1]>>

\* The reporter was called twice, the second time for the last character of
\* the input.
C12_Witness ==
    /\ pc = "done"
    /\ Len(errors) >= 2
    /\ last(errors).offset + 1 = length

\* The kind whose value in the TokenKind enum is the given text.
KindOf(text) == (CHOOSE e \in OperatorValue : e[2] = text)[1]

\* C13: an operator symbol of the precedence table given as the whole input
\* raises no lexical error and, once scanProgram has returned, has produced
\* exactly the token of the symbol's kind, spelled as the input, and EOF.
C13_OperatorsTokenize ==
    program \in Symbols =>
        /\ pc \in {"scan", "done"}
        /\ errors = <<>>
        /\ pc = "done" =>
            /\ Len(tokens) = 2
            /\ tokens[1].kind = KindOf(program)
            /\ tokens[1].lexeme = program
            /\ tokens[2].kind = "EOF"

\* The file's line-start table, once a query has built it.
Table == mLineStartsCache[1]

\* The entries of the table that are at most o, by their index.
StartsUpTo(o) == {i \in 1..Len(Table) : Table[i] <= o}

\* The offset the last query was made with.
Queried == lastCall.args[1]

\* C14: computeLine of an offset within the file returns the number of
\* line-start entries that are at most the offset: 0 on the first line, also
\* when the table is empty, and the size of the table from the last entry on.
C14_LineIsCountOfStarts ==
    lastCall.op = "computeLine" /\ validOffset(Queried) =>
        /\ lastCall.thrown = "none"
        /\ lastCall.result = Cardinality(StartsUpTo(Queried))

\* C15: computeColumn of an offset within the file returns the offset less the
\* largest line-start entry that is at most the offset, the offset itself
\* when there is no such entry, and never a negative number.
C15_ColumnFromLineStart ==
    lastCall.op = "computeColumn" /\ validOffset(Queried) =>
        /\ lastCall.thrown = "none"
        /\ lastCall.result >= 0
        /\ lastCall.result =
            IF StartsUpTo(Queried) = {} THEN Queried
            ELSE Queried - Table[CHOOSE i \in StartsUpTo(Queried) :
                                    \A j \in StartsUpTo(Queried) : j <= i]

\* The column of an offset past the second line start was computed, and the
\* offset is not itself a line start.
C15_Witness ==
    /\ lastCall.op = "computeColumn"
    /\ lastCall.thrown = "none"
    /\ Len(Table) >= 2
    /\ Queried > Table[2]
    /\ lastCall.result > 0

\* C16: span throws a RangeError exactly when an endpoint is negative or
\* beyond the length or the end precedes the start, and otherwise returns the
\* span of contents[start, end) at start; computeLine and computeColumn throw
\* a RangeError exactly when the offset is outside [0, length].  Nothing else
\* is thrown.
C16_RangeErrors ==
    /\ lastCall.op = "span" =>
        LET start == lastCall.args[1]
            end == lastCall.args[2]
        IN  /\ lastCall.thrown \in {"none", "RangeError"}
            /\ lastCall.thrown = "RangeError" <=>
                  \/ start < 0 \/ end < 0
                  \/ start > length \/ end > length
                  \/ end < start
            /\ lastCall.thrown = "none" =>
                  /\ lastCall.result.offset = start
                  /\ lastCall.result.text = SubSeq(program, start + 1, end)
                  /\ lastCall.result.length = end - start
    /\ lastCall.op \in {"computeLine", "computeColumn"} =>
        /\ lastCall.thrown \in {"none", "RangeError"}
        /\ lastCall.thrown = "RangeError" <=> (Queried < 0 \/ Queried > length)

\* span returned two characters or more, up to the end of the file.
C16_Witness ==
    /\ lastCall.op = "span"
    /\ lastCall.thrown = "none"
    /\ lastCall.args[2] = length
    /\ lastCall.result.length >= 2

\* What the last call moved the cursor over.
Consumed == substring(lastCall.before, mPosition)

\* C17: a match that returns false leaves the position alone; one that
\* returns true has moved it by one (char code, matcher) or by the length of
\* the pattern (string), over text that is the pattern or one character the
\* matcher holds of.  peek, hasNext and substring leave the position alone.
C17_MatchMovesOverWhatItMatched ==
    /\ lastCall.op \in {"matchCode", "matchString", "matchMatcher"} =>
        /\ lastCall.thrown = "none"
        /\ ~lastCall.result => mPosition = lastCall.before
        /\ lastCall.op = "matchCode" /\ lastCall.result =>
              /\ mPosition = lastCall.before + 1
              /\ Consumed = lastCall.args
        /\ lastCall.op = "matchString" /\ lastCall.result =>
              /\ mPosition = lastCall.before + Len(lastCall.args[1])
              /\ Consumed = lastCall.args[1]
        /\ lastCall.op = "matchMatcher" /\ lastCall.result =>
              /\ mPosition = lastCall.before + 1
              /\ Len(Consumed) = 1
              /\ Matches(lastCall.args[1], Consumed[1])
    /\ lastCall.op \in {"peek", "hasNext", "substring"} =>
        /\ lastCall.thrown = "none"
        /\ mPosition = lastCall.before

\* C18: every call of PrintTreeVisitor.visitCompilationUnit on the AST returns
\* the same output, on a new visitor or on one that was used before.
C18_SameOutputEveryRun ==
    \A i, j \in 1..Len(returned) : returned[i].value = returned[j].value

\* The children of a node in the documented order; the target of an
\* invocation comes first where it counts as a child.
Children(node, withTarget) ==
    CASE node.kind = "CompilationUnit" -> node.functions
      [] node.kind = "FunctionDeclaration" -> node.body
      [] node.kind = "VariableDeclaration" -> <<node.value>>
      [] node.kind = "ReturnStatement" -> <<node.value>>
      [] node.kind = "ParenthesizedExpression" -> node.body
      [] node.kind = "IfExpression" ->
            <<node.ifExpression>> \o node.ifBody \o node.elseBody
      [] node.kind = "InvocationExpression" ->
            (IF withTarget THEN <<node.target>> ELSE <<>>) \o node.args
      [] OTHER -> <<>>

\* A node and its descendants, parents before children.
RECURSIVE Preorder(_, _)
RECURSIVE PreorderEach(_, _)
Preorder(node, withTarget) ==
    <<node>> \o PreorderEach(Children(node, withTarget), withTarget)

PreorderEach(nodes, withTarget) ==
    IF nodes = <<>> THEN <<>>
    ELSE Preorder(Head(nodes), withTarget) \o PreorderEach(Tail(nodes), withTarget)

\* The nodes of the AST, targets included.
Nodes == {Preorder(ast, TRUE)[i] : i \in 1..Len(Preorder(ast, TRUE))}

\* C19: visiting any node of the AST with the PrintTreeVisitor leaves the
\* indent where it was, no line is written at a negative indent, and the
\* indent is 0 whenever no visit is under way.
C19_IndentBalanced ==
    returned # <<>> =>
        /\ indent = 0
        /\ \A i \in 1..Len(output) : output[i].indent >= 0
        /\ \A node \in Nodes :
            visit(Visitor("PrintTreeVisitor", output, indent), node).indent = indent

\* How many of the items satisfy the test.
Count(items, Test(_)) == Cardinality({i \in 1..Len(items) : Test(items[i])})

IsElse(line) == line.message = "Else"

HasElse(node) == node.kind = "IfExpression" /\ node.elseBody # <<>>

\* C20: the walk of AstVisitor enters the hook of every descendant once,
\* parents first and children in the documented order, but for the target of
\* an invocation and what is below it; PrintTreeVisitor enters the target as
\* well, before the arguments, and writes an Else heading for just the
\* IfExpressions whose else-body is not empty.
C20_WalkOrder ==
    /\ visited # <<>> => visited = Preorder(ast, FALSE)
    /\ \A i \in 1..Len(returned) :
        /\ returned[i].hooks = Preorder(ast, TRUE)
        /\ returned[i].new =>
              Count(returned[i].value, IsElse) = Count(Preorder(ast, TRUE), HasElse)

\* Both visitors went through an AST with an IfExpression that has an
\* if-body and an else-body.
C20_Witness ==
    /\ visited # <<>>
    /\ returned # <<>>
    /\ \E node \in Nodes : HasElse(node) /\ node.ifBody # <<>>

\* C21: with a reporter that returns, the anchor equals the cursor whenever
\* scanToken is entered; so a scanToken that reports an unexpected character
\* reports the span of the character it read, and no token it emits starts
\* before the character it read.
C21_AnchorAtCursor ==
    [][(reporter = "record" /\ pc' = "scan") =>
        /\ mPosition' < length => position' = mPosition'
        /\ (Len(errors') > Len(errors)
                /\ last(errors').error = "Unexpected character") =>
              last(errors').offset = mPosition
        /\ Emitted => last(tokens').offset >= mPosition]_vars

\* The comments attached to token i.
CommentsOf(i) == tokens[i].comments

\* C22: the offset of every line comment is that of its first `/`, so the
\* input at [offset, offset + lexeme.length) is the lexeme, and the offset is
\* less than that of the token the comment is attached to.
C22_CommentOffsetAtStart ==
    /\ \A j \in 1..Len(lastComments) :
        substring(lastComments[j].offset,
                  lastComments[j].offset + Len(lastComments[j].lexeme))
            = lastComments[j].lexeme
    /\ \A i \in 1..Len(tokens) : \A j \in 1..Len(CommentsOf(i)) :
        /\ substring(CommentsOf(i)[j].offset,
                     CommentsOf(i)[j].offset + Len(CommentsOf(i)[j].lexeme))
              = CommentsOf(i)[j].lexeme
        /\ CommentsOf(i)[j].offset < tokens[i].offset

\* Where the maximal run of digits, and of hex digits, that starts at offset i
\* ends.
RECURSIVE DigitsEnd(_)
DigitsEnd(i) == IF isDigit(charCodeAt(i)) THEN DigitsEnd(i + 1) ELSE i

RECURSIVE HexEnd(_)
HexEnd(i) == IF isHexadecimal(charCodeAt(i)) THEN HexEnd(i + 1) ELSE i

\* Where the numeric literal that starts at the digit at offset i ends.
NumberEnd(i) ==
    IF charCodeAt(i) = "0" /\ charCodeAt(i + 1) \in {"x", "X"} THEN HexEnd(i + 2)
    ELSE IF charCodeAt(i + 1) \in {"e", "E"} THEN DigitsEnd(i + 2)
    ELSE IF charCodeAt(DigitsEnd(i)) = "." THEN DigitsEnd(DigitsEnd(i) + 1)
    ELSE DigitsEnd(i)

Periods(str) == Cardinality({i \in 1..Len(str) : str[i] = "."})

\* C23: a scanToken that starts at a digit emits one NUMBER token and moves
\* the cursor to the end of the literal: past `0x`/`0X` and the hex digits
\* after it, else past the digit, an e/E right after it and the digits after
\* that, else past the run of digits and, when a period follows it, the period
\* and the digits after it.  The lexeme of a NUMBER token that starts at that
\* digit is the text of the literal, and a NUMBER lexeme holds at most one
\* period.
C23_NumberLexeme ==
    [][(AtScanToken /\ isDigit(peek(self))) =>
        /\ Emitted
        /\ last(tokens').kind = "NUMBER"
        /\ mPosition' = NumberEnd(mPosition)
        /\ Periods(last(tokens').lexeme) <= 1
        /\ last(tokens').offset = mPosition =>
              last(tokens').lexeme = substring(mPosition, NumberEnd(mPosition))]_vars

\* A NUMBER that starts at a digit and has a period inside its lexeme was
\* returned, not as the first token.
C23_Witness ==
    /\ pc = "done"
    /\ \E i \in 2..Len(tokens) :
        /\ tokens[i].kind = "NUMBER"
        /\ isDigit(charCodeAt(tokens[i].offset))
        /\ Len(tokens[i].lexeme) = 3
        /\ tokens[i].lexeme[2] = "."

\* A line terminator ends at index i: a line feed, or a carriage return that
\* no line feed follows.
TerminatorEndsAt(i) ==
    \/ charCodeAt(i) = "\n"
    \/ charCodeAt(i) = "\r" /\ charCodeAt(i + 1) # "\n"

\* A query of a line or a column that returned.
IsQuery(c) == c.op \in {"computeLine", "computeColumn"} /\ c.thrown = "none"

\* What the query gives on a file that was never queried before.
FirstAnswer(c) ==
    IF c.op = "computeLine" THEN computeLine(<<>>, c.args[1]).out.result
    ELSE computeColumn(<<>>, c.args[1]).out.result

\* C24: the line-start table, once built, holds exactly i + 1 for each line
\* terminator ending at index i (a CR+LF counts once, at the LF), strictly
\* increasing and within [1, length]; it is built at most once, and every
\* query of a line or a column gives what it gives on a fresh file, whatever
\* was queried before.
C24_LineStartTable ==
    [][/\ mLineStartsCache # <<>> => mLineStartsCache' = mLineStartsCache
       /\ mLineStartsCache' # <<>> =>
            LET table == mLineStartsCache'[1]
            IN  /\ {table[k] : k \in 1..Len(table)}
                      = {i + 1 : i \in {j \in 0..(length - 1) : TerminatorEndsAt(j)}}
                /\ \A k \in 1..(Len(table) - 1) : table[k] < table[k + 1]
                /\ \A k \in 1..Len(table) : table[k] >= 1 /\ table[k] <= length
       /\ IsQuery(lastCall') => lastCall'.result = FirstAnswer(lastCall')]_vars

\* The table of a file with a line feed and a CR+LF was built, with two
\* entries, and the column of the end of the file was asked for.
C24_Witness ==
    /\ mLineStartsCache # <<>>
    /\ Len(mLineStartsCache[1]) = 2
    /\ \E i \in 1..(length - 1) : program[i] = "\r" /\ program[i + 1] = "\n"
    /\ lastCall.op = "computeColumn"
    /\ lastCall.thrown = "none"
    /\ lastCall.result = 0
    /\ lastCall.args = <<length>>

\* C25: after any sequence of scanner operations the position is within
\* [0, length], and an operation that throws leaves the position where it
\* was.
C25_PositionInRange ==
    /\ mPosition >= 0
    /\ mPosition <= length
    /\ (lastCall.op # "none" /\ lastCall.thrown # "none") =>
          lastCall.thrown = "RangeError" /\ mPosition = lastCall.before

\* C26: whatever the lexer was used for before, a call of scanProgram ends as
\* it does on a new lexer: it returns the same tokens, with the same kinds,
\* lexemes, offsets and comments, or throws the same error.
C26_NoSharedState ==
    /\ pc = "done" => tokens = scanProgram(fresh, <<>>).result
    /\ pc \notin {"scan", "done"} => pc = scanProgram(fresh, <<>>).thrown

=============================================================================
